---- MODULE Spec2Model ----
(***************************************************************************)
(* Model of the investment-advisor application.                            *)
(*                                                                         *)
(* Backend: routes/portfolios.ts, controllers/portfolioController.ts,      *)
(* controllers/userController.ts and controllers/authController.ts behind  *)
(* middleware/auth.ts and middleware/errorHandler.ts, over the Prisma      *)
(* tables user, portfolio, position, transaction, watchlist and            *)
(* userSettings.  Frontend: the risk questionnaire (RiskAssessment) and    *)
(* the performance metrics shown on the dashboard.                         *)
(*                                                                         *)
(* Every controller is an async function: each `await prisma...` is one    *)
(* database round trip, and other requests may run between two of them.    *)
(* A request in flight occupies a slot of `inflight`; an action of the     *)
(* model is the code of a handler from one await to the next.              *)
(*                                                                         *)
(* Numbers: shares, prices and fees are Floats in the code.  The model     *)
(* uses integers (whole shares, whole currency units); the arithmetic of   *)
(* the handlers (+, *, increment) is the same on both.                     *)
(***************************************************************************)
EXTENDS Integers, Sequences, FiniteSets, TLC

(* ------------------------------------------------------------------ *)
(* Domains                                                            *)
(* ------------------------------------------------------------------ *)

\* cuid()s of user rows, in the order in which they are handed out.
UserIdOrder == <<"u1", "u2", "u3", "u4">>

\* The callers of the portfolio and user controllers (req.user.id).
Users == {"u1", "u2"}

Emails == {"ann@x.io", "bob@x.io"}

Passwords == {"pw1", "pw2"}

\* cuid()s of portfolio rows, in the order in which they are handed out.
IdOrder == <<"p1", "p2">>

PortfolioIds == {IdOrder[i] : i \in 1..Len(IdOrder)}

Symbols == {"AAPL", "MSFT"}

\* Slots for requests in flight (Node serves them interleaved at awaits).
Procs == {"r1", "r2"}

\* Transaction rows ever created, under SpecLedger.
MaxTx == 3

\* Position rows at one time, under SpecPositions.
MaxPositions == 2

\* Position and transaction rows together, under Spec.
MaxRows == 2

\* |shares| of a position row stays within this.
MaxShares == 2

\* A series handed to the analytics has at most this many snapshots.
MaxSnapshots == 4

\* The value of a snapshot is 1..MaxValue.
MaxValue == 4

\* Bodies a client may send to POST /:id/transactions: type, shares, price,
\* fees (<<>>: the field is omitted).  The first three pass validation.
TxBody(type, shares, price, fees) ==
  [type |-> type, shares |-> shares, price |-> price, fees |-> fees]

TxBodies ==
  {TxBody("BUY", 2, 2, <<>>), TxBody("SELL", 1, 2, <<1>>), TxBody("SELL", 2, 1, <<>>),
   TxBody("BUY", 0, 2, <<>>), TxBody("BUY", 2, 0, <<>>), TxBody("SELL", 1, 2, <<-1>>),
   TxBody("HOLD", 1, 2, <<0>>)}

\* Bodies a client may send to POST /:id/positions and PUT
\* /:id/positions/:symbol (no validation chain guards these routes).
PosBody(shares, averagePrice) == [shares |-> shares, averagePrice |-> averagePrice]

PosBodies == {PosBody(1, 2), PosBody(1, 4), PosBody(0, 2), PosBody(-1, 2)}

\* Bodies of POST / and PUT /:id.
Names == {"Growth", "Income"}

VARIABLES
  users,          \* rows of table user
  portfolios,     \* rows of table portfolio
  usedIds,        \* portfolio ids handed out so far (a cuid is never reused)
  positions,      \* rows of table position
  transactions,   \* rows of table transaction
  nextTxId,       \* id of the next transaction row
  inflight,       \* Procs -> the request the slot is serving
  response,       \* the response sent last
  watchlists,     \* rows of table watchlist
  userSettings,   \* rows of table userSettings
  tokens,         \* the JWTs the service has handed to clients
  express,        \* the major version of express the service is built with
  currentQuestion, answers, isCompleted, riskProfile,
                  \* useState of the RiskAssessment component
  series,         \* the valuations handed to the performance analytics
  benchmark,      \* the benchmark's valuations over the same dates
  metrics         \* what the analytics returned for them

db == <<users, portfolios, usedIds, positions, transactions, nextTxId>>

\* What the authentication routes add to the backend's state.
auth == <<watchlists, userSettings, tokens, express>>

\* The state of the web client.
frontend == <<currentQuestion, answers, isCompleted, riskProfile, series, benchmark,
              metrics>>

\* The tables only the authentication routes and deleteAccount write.
profile == <<watchlists, userSettings>>

vars == <<db, inflight, response, auth, frontend>>

(* ------------------------------------------------------------------ *)
(* Requests and responses                                             *)
(* ------------------------------------------------------------------ *)

\* A request whose handler is between two awaits: the caller (req.user.id),
\* the route parameters p (:id) and sym (:symbol or body.symbol), the body.
\*   pc        "idle" | "verified" (the ownership check has passed)
\*             | "updated" (the write is done, the row is read back)
\*   ver, held what the ledger was when the handler read the database:
\*             nextTxId and the symbol's net share count (kept for the
\*             statements about stale reads; the code reads neither)
Request(op, u, p, sym, body) ==
  [pc |-> "idle", op |-> op, user |-> u, p |-> p, sym |-> sym, body |-> body,
   ver |-> 0, held |-> 0]

NoBody == [none |-> TRUE]

Idle == Request("", "", "", "", NoBody)

\* A response: the HTTP status and ApiResponse.error (op is the route it
\* answers, which the record does not keep).
Respond(op, status, error) == [status |-> status, error |-> error]

NoResponse == Respond("", 0, "")

\* errorHandler: a thrown Error without statusCode is answered 500 with its
\* message.
Throw(op, message) == Respond(op, 500, message)

\* res.json(...): the handler of slot r ends with this response.
Send(r, resp) ==
  /\ response' = resp
  /\ inflight' = [inflight EXCEPT ![r] = Idle]
  /\ UNCHANGED <<tokens, express, frontend>>

\* The handler of slot r awaits its next database call.
Await(r, req, pc) ==
  /\ inflight' = [inflight EXCEPT ![r] = [req EXCEPT !.pc = pc]]
  /\ UNCHANGED <<response, tokens, express, frontend>>

(* ------------------------------------------------------------------ *)
(* Queries                                                            *)
(* ------------------------------------------------------------------ *)

RECURSIVE SumOver(_, _)
\* Sum of f[x] over the finite set S.
SumOver(S, f) ==
  IF S = {} THEN 0
  ELSE LET x == CHOOSE y \in S : TRUE
       IN  f[x] + SumOver(S \ {x}, f)

\* bcrypt.hash(password, saltRounds) and bcrypt.compare(password, hash).
BcryptHash(password) == <<"bcrypt", password>>

BcryptCompare(password, hash) == hash = BcryptHash(password)

\* A row of table user (isActive defaults to true and no route clears it).
UserRow(id, email, password) ==
  [id |-> id, email |-> email, password |-> BcryptHash(password), isActive |-> TRUE]

\* prisma.user.findUnique({where: {id}}) and ({where: {email}})
FindUserById(u) == {row \in users : row.id = u}

FindUserByEmail(email) == {row \in users : row.email = email}

UserExists(u) == FindUserById(u) # {}

\* prisma.portfolio.findFirst({where: {id, userId}})
FindPortfolio(p, u) == {row \in portfolios : row.id = p /\ row.userId = u}

PortfolioExists(p) == \E row \in portfolios : row.id = p

\* getTransactions / the ledger of one symbol.
TransactionsOf(p, sym) ==
  {t \in transactions : t.portfolioId = p /\ t.symbol = sym}

\* Net shares of the ledger: BUYs minus SELLs.
LedgerShares(p, sym) ==
  LET T == TransactionsOf(p, sym)
      signed == [t \in T |-> IF t.type = "BUY" THEN t.shares ELSE 0 - t.shares]
  IN  SumOver(T, signed)

\* getPositions
PositionsOf(p) == {row \in positions : row.portfolioId = p}

FindPosition(p, sym) == {row \in positions : row.portfolioId = p /\ row.symbol = sym}

\* The shares getPositions reports for a symbol (none when it has no row).
PositionShares(p, sym) ==
  LET P == FindPosition(p, sym)
  IN  SumOver(P, [row \in P |-> row.shares])

(* ------------------------------------------------------------------ *)
(* Request validation of POST /:id/transactions                       *)
(* ------------------------------------------------------------------ *)

\* transactionValidation with isFloat({min: 0}) on shares.
transactionValidation_SharesMinZero(sym, body) ==
    (IF sym = "" THEN {"symbol"} ELSE {})
  \cup (IF body.type \in {"BUY", "SELL"} THEN {} ELSE {"type"})
  \cup (IF body.shares >= 0 THEN {} ELSE {"shares"})
  \cup (IF body.price >= 1 THEN {} ELSE {"price"})
  \cup (IF body.fees = <<>> \/ body.fees[1] >= 0 THEN {} ELSE {"fees"})

\* The express-validator chains: the set of fields that fail.  isFloat's
\* minima 0.0001 (shares) and 0.01 (price) are 1 in whole units.
transactionValidation(sym, body) ==
    (IF sym = "" THEN {"symbol"} ELSE {})
  \cup (IF body.type \in {"BUY", "SELL"} THEN {} ELSE {"type"})
  \cup (IF body.shares >= 1 THEN {} ELSE {"shares"})
  \cup (IF body.price >= 1 THEN {} ELSE {"price"})
  \cup (IF body.fees = <<>> \/ body.fees[1] >= 0 THEN {} ELSE {"fees"})

\* middleware/validateRequest: passes the request on only when no chain
\* reported an error, and answers 400 otherwise.
validateRequest(errors) == errors = {}

(* ------------------------------------------------------------------ *)
(* Portfolio routes                                                   *)
(* ------------------------------------------------------------------ *)

\* onDelete: Cascade of position.portfolio and transaction.portfolio.
CascadePositions(deleted) == {row \in positions : row.portfolioId \notin deleted}

CascadeTransactions(deleted) == {t \in transactions : t.portfolioId \notin deleted}

\* The next cuid: the first id not handed out yet.
FreshId ==
  LET i == CHOOSE k \in 1..Len(IdOrder) :
             /\ IdOrder[k] \notin usedIds
             /\ \A j \in 1..(k - 1) : IdOrder[j] \in usedIds
  IN  IdOrder[i]

\* The value of portfolio.isDefault when create passes none: @default(false)
\* in schema.prisma.
IsDefaultWhenOmitted == FALSE

\* createPortfolio passing isDefault: true, as register does.
createPortfolio_Default(r, u, name) ==
  /\ inflight[r].pc = "idle"
  /\ PortfolioIds \ usedIds # {}
  /\ portfolios' = portfolios \cup
       {[id |-> FreshId, userId |-> u, name |-> name, isDefault |-> TRUE]}
  /\ usedIds' = usedIds \cup {FreshId}
  /\ Send(r, Respond("createPortfolio", 201, ""))
  /\ UNCHANGED <<users, positions, transactions, nextTxId>>
  /\ UNCHANGED profile

\* POST /  (one await: portfolio.create)
createPortfolio(r, u, name) ==
  /\ inflight[r].pc = "idle"
  /\ PortfolioIds \ usedIds # {}
  /\ IF UserExists(u)
     THEN /\ portfolios' = portfolios \cup
               {[id |-> FreshId, userId |-> u, name |-> name,
                 isDefault |-> IsDefaultWhenOmitted]}
          /\ usedIds' = usedIds \cup {FreshId}
          /\ Send(r, Respond("createPortfolio", 201, ""))
     ELSE /\ Send(r, Throw("createPortfolio", "Foreign key constraint failed"))
          /\ UNCHANGED <<portfolios, usedIds>>
  /\ UNCHANGED <<users, positions, transactions, nextTxId>>
  /\ UNCHANGED profile

\* PUT /:id up to its second await: portfolio.updateMany
updatePortfolioUpdate(r, u, p, name) ==
  /\ inflight[r].pc = "idle"
  /\ IF FindPortfolio(p, u) = {}
     THEN /\ Send(r, Throw("updatePortfolio", "Portfolio not found"))
          /\ UNCHANGED portfolios
     ELSE /\ portfolios' = (portfolios \ FindPortfolio(p, u)) \cup
               {[row EXCEPT !.name = name] : row \in FindPortfolio(p, u)}
          /\ Await(r, Request("updatePortfolio", u, p, "", NoBody), "updated")
  /\ UNCHANGED <<users, usedIds, positions, transactions, nextTxId>>
  /\ UNCHANGED profile

\* PUT /:id from its second await: portfolio.findUnique and the response.
updatePortfolioRespond(r) ==
  /\ inflight[r].pc = "updated"
  /\ inflight[r].op = "updatePortfolio"
  /\ Send(r, Respond("updatePortfolio", 200, ""))
  /\ UNCHANGED db
  /\ UNCHANGED profile

\* deletePortfolio removing the portfolio row only.
deletePortfolio_KeepRows(r, u, p) ==
  /\ inflight[r].pc = "idle"
  /\ IF FindPortfolio(p, u) = {}
     THEN /\ Send(r, Throw("deletePortfolio", "Portfolio not found"))
          /\ UNCHANGED portfolios
     ELSE /\ portfolios' = portfolios \ FindPortfolio(p, u)
          /\ Send(r, Respond("deletePortfolio", 200, ""))
  /\ UNCHANGED <<users, usedIds, nextTxId, positions, transactions>>
  /\ UNCHANGED profile

\* DELETE /:id  (one await: portfolio.deleteMany)
deletePortfolio(r, u, p) ==
  /\ inflight[r].pc = "idle"
  /\ IF FindPortfolio(p, u) = {}
     THEN /\ Send(r, Throw("deletePortfolio", "Portfolio not found"))
          /\ UNCHANGED <<portfolios, positions, transactions>>
     ELSE /\ portfolios' = portfolios \ FindPortfolio(p, u)
          /\ positions' = CascadePositions({p})
          /\ transactions' = CascadeTransactions({p})
          /\ Send(r, Respond("deletePortfolio", 200, ""))
  /\ UNCHANGED <<users, usedIds, nextTxId>>
  /\ UNCHANGED profile

(* ------------------------------------------------------------------ *)
(* Position routes                                                    *)
(* ------------------------------------------------------------------ *)

\* The create branch of position.upsert.
NewPosition(p, sym, body) ==
  [portfolioId |-> p, symbol |-> sym, shares |-> body.shares,
   averagePrice |-> body.averagePrice, currentPrice |-> body.averagePrice,
   marketValue |-> body.shares * body.averagePrice,
   costBasis |-> body.shares * body.averagePrice,
   gain |-> 0, gainPercent |-> 0, weight |-> 0]

\* The update branch of position.upsert: shares: {increment}, averagePrice:
\* {set: 0}.
IncrementPosition(row, body) ==
  [row EXCEPT !.shares = row.shares + body.shares, !.averagePrice = 0]

\* data: {shares, averagePrice} of position.updateMany.
SetPosition(row, body) ==
  [row EXCEPT !.shares = body.shares, !.averagePrice = body.averagePrice]

\* POST /:id/positions up to the first await of addPosition:
\* portfolio.findFirst.
addPositionVerify(r, u, p, sym, body) ==
  /\ inflight[r].pc = "idle"
  /\ IF FindPortfolio(p, u) = {}
     THEN Send(r, Throw("addPosition", "Portfolio not found"))
     ELSE Await(r, Request("addPosition", u, p, sym, body), "verified")
  /\ UNCHANGED db
  /\ UNCHANGED profile

\* addPosition writing with position.create instead of position.upsert.
addPositionUpsert_Create(r) ==
  /\ inflight[r].pc = "verified"
  /\ inflight[r].op = "addPosition"
  /\ LET req == inflight[r]
     IN  /\ positions' = positions \cup {NewPosition(req.p, req.sym, req.body)}
         /\ Send(r, Respond("addPosition", 201, ""))
  /\ UNCHANGED <<users, portfolios, usedIds, transactions, nextTxId>>
  /\ UNCHANGED profile

\* addPosition from its second await: position.upsert on the unique key
\* (portfolioId, symbol), and the response.
addPositionUpsert(r) ==
  /\ inflight[r].pc = "verified"
  /\ inflight[r].op = "addPosition"
  /\ LET req == inflight[r]
         found == FindPosition(req.p, req.sym)
     IN  IF ~PortfolioExists(req.p)
         THEN /\ Send(r, Throw("addPosition", "Foreign key constraint failed"))
              /\ UNCHANGED positions
         ELSE /\ positions' =
                   IF found = {}
                   THEN positions \cup {NewPosition(req.p, req.sym, req.body)}
                   ELSE (positions \ found) \cup
                          {IncrementPosition(row, req.body) : row \in found}
              /\ Send(r, Respond("addPosition", 201, ""))
  /\ UNCHANGED <<users, portfolios, usedIds, transactions, nextTxId>>
  /\ UNCHANGED profile

\* OwnedPosition without the portfolioId filter: symbol and portfolio:
\* {userId} only.
OwnedPosition_AnyPortfolio(p, sym, u) ==
  {row \in positions : row.symbol = sym /\ FindPortfolio(row.portfolioId, u) # {}}

\* The rows position.updateMany / deleteMany select: portfolioId, symbol and
\* portfolio: {userId}.
OwnedPosition(p, sym, u) ==
  {row \in FindPosition(p, sym) : FindPortfolio(p, u) # {}}

\* PUT /:id/positions/:symbol up to its second await: position.updateMany
updatePositionUpdate(r, u, p, sym, body) ==
  /\ inflight[r].pc = "idle"
  /\ LET found == OwnedPosition(p, sym, u)
     IN  IF found = {}
         THEN /\ Send(r, Throw("updatePosition", "Position not found"))
              /\ UNCHANGED positions
         ELSE /\ positions' = (positions \ found) \cup
                   {SetPosition(row, body) : row \in found}
              /\ Await(r, Request("updatePosition", u, p, sym, NoBody), "updated")
  /\ UNCHANGED <<users, portfolios, usedIds, transactions, nextTxId>>
  /\ UNCHANGED profile

\* PUT /:id/positions/:symbol from its second await: position.findFirst and
\* the response.
updatePositionRespond(r) ==
  /\ inflight[r].pc = "updated"
  /\ inflight[r].op = "updatePosition"
  /\ Send(r, Respond("updatePosition", 200, ""))
  /\ UNCHANGED db
  /\ UNCHANGED profile

\* DELETE /:id/positions/:symbol  (one await: position.deleteMany)
removePosition(r, u, p, sym) ==
  /\ inflight[r].pc = "idle"
  /\ LET found == OwnedPosition(p, sym, u)
     IN  IF found = {}
         THEN /\ Send(r, Throw("removePosition", "Position not found"))
              /\ UNCHANGED positions
         ELSE /\ positions' = positions \ found
              /\ Send(r, Respond("removePosition", 200, ""))
  /\ UNCHANGED <<users, portfolios, usedIds, transactions, nextTxId>>
  /\ UNCHANGED profile

(* ------------------------------------------------------------------ *)
(* Transaction routes                                                 *)
(* ------------------------------------------------------------------ *)

\* const { ..., fees = 0, ... } = req.body
TransactionFees(body) == IF body.fees = <<>> THEN 0 ELSE body.fees[1]

\* const total = shares * price + fees
TransactionTotal(body) == body.shares * body.price + TransactionFees(body)

\* data of prisma.transaction.create
NewTransaction(req, id) ==
  [id |-> id, portfolioId |-> req.p, userId |-> req.user, symbol |-> req.sym,
   type |-> req.body.type, shares |-> req.body.shares, price |-> req.body.price,
   total |-> TransactionTotal(req.body), fees |-> TransactionFees(req.body)]

\* CreateTransaction as an upsert on (portfolioId, symbol), the way
\* addPosition writes.
CreateTransaction_Upsert(rows, row) ==
  {t \in rows : ~(t.portfolioId = row.portfolioId /\ t.symbol = row.symbol)} \cup {row}

\* prisma.transaction.create: one more row.
CreateTransaction(rows, row) == rows \cup {row}

\* POST /:id/transactions up to the first await of addTransaction:
\* transactionValidation, validateRequest, portfolio.findFirst.
addTransactionVerify(r, u, p, sym, body) ==
  /\ inflight[r].pc = "idle"
  /\ IF ~validateRequest(transactionValidation(sym, body))
     THEN Send(r, Respond("addTransaction", 400, "Validation failed"))
     ELSE IF FindPortfolio(p, u) = {}
     THEN Send(r, Throw("addTransaction", "Portfolio not found"))
     ELSE Await(r, [Request("addTransaction", u, p, sym, body)
                      EXCEPT !.ver = nextTxId, !.held = LedgerShares(p, sym)],
                "verified")
  /\ UNCHANGED db
  /\ UNCHANGED profile

\* addTransaction from its second await: transaction.create and the response.
addTransactionCreate(r) ==
  /\ inflight[r].pc = "verified"
  /\ inflight[r].op = "addTransaction"
  /\ IF PortfolioExists(inflight[r].p)
     THEN /\ transactions' =
               CreateTransaction(transactions, NewTransaction(inflight[r], nextTxId))
          /\ nextTxId' = nextTxId + 1
          /\ Send(r, Respond("addTransaction", 201, ""))
     ELSE /\ Send(r, Throw("addTransaction", "Foreign key constraint failed"))
          /\ UNCHANGED <<transactions, nextTxId>>
  /\ UNCHANGED <<users, portfolios, usedIds, positions>>
  /\ UNCHANGED profile

(* ------------------------------------------------------------------ *)
(* User routes                                                        *)
(* ------------------------------------------------------------------ *)

\* DELETE /account  (one await: user.delete, cascading)
deleteAccount(r, u) ==
  /\ inflight[r].pc = "idle"
  /\ LET owned == {row.id : row \in {x \in portfolios : x.userId = u}}
     IN  IF UserExists(u)
         THEN /\ users' = users \ FindUserById(u)
              /\ portfolios' = {row \in portfolios : row.userId # u}
              /\ positions' = CascadePositions(owned)
              /\ transactions' = CascadeTransactions(owned)
              /\ watchlists' = watchlists \ {u}
              /\ userSettings' = userSettings \ {u}
              /\ Send(r, Respond("deleteAccount", 200, ""))
         ELSE /\ Send(r, Respond("deleteAccount", 404, "Record not found"))
              /\ UNCHANGED <<users, portfolios, positions, transactions, profile>>
  /\ UNCHANGED <<usedIds, nextTxId>>

\* prisma.user.findFirst({where: {email, id: {not: u}}})
EmailTakenByOther(email, u) == \E row \in users : row.email = email /\ row.id # u

\* PUT /profile with an email, up to its second await: the email is looked
\* up among the other users.
updateProfileFind(r, u, email) ==
  /\ inflight[r].pc = "idle"
  /\ IF EmailTakenByOther(email, u)
     THEN Send(r, Throw("updateProfile", "Email is already taken"))
     ELSE Await(r, [pc |-> "idle", op |-> "updateProfile", user |-> u, email |-> email],
                "emailChecked")
  /\ UNCHANGED <<db, profile>>

\* user.update that writes the email whatever another row holds.
updateProfileUpdate_NoConstraint(r) ==
  /\ inflight[r].pc = "emailChecked"
  /\ LET req == inflight[r]
     IN  IF ~UserExists(req.user)
         THEN /\ Send(r, Respond("updateProfile", 404, "Record not found"))
              /\ UNCHANGED users
         ELSE /\ users' = (users \ FindUserById(req.user)) \cup
                            {[row EXCEPT !.email = req.email] : row \in FindUserById(req.user)}
              /\ Send(r, Respond("updateProfile", 200, ""))
  /\ UNCHANGED <<portfolios, usedIds, positions, transactions, nextTxId, profile>>

\* PUT /profile from its second await: user.update (P2025 when the row is
\* gone, P2002 when another row holds the email by now: email is unique)
\* and the response.
updateProfileUpdate(r) ==
  /\ inflight[r].pc = "emailChecked"
  /\ LET req == inflight[r]
     IN  IF ~UserExists(req.user)
         THEN /\ Send(r, Respond("updateProfile", 404, "Record not found"))
              /\ UNCHANGED users
         ELSE IF EmailTakenByOther(req.email, req.user)
         THEN /\ Send(r, Respond("updateProfile", 400, "Duplicate field value entered"))
              /\ UNCHANGED users
         ELSE /\ users' = (users \ FindUserById(req.user)) \cup
                            {[row EXCEPT !.email = req.email] : row \in FindUserById(req.user)}
              /\ Send(r, Respond("updateProfile", 200, ""))
  /\ UNCHANGED <<portfolios, usedIds, positions, transactions, nextTxId, profile>>

(* ------------------------------------------------------------------ *)
(* Responses with data, and the read routes of the portfolio router   *)
(* ------------------------------------------------------------------ *)

\* null, as the data of a response.
Null == [null |-> TRUE]

\* A successful ApiResponse with its data and message.
ApiResponse(status, data, message) ==
  [status |-> status, error |-> "", data |-> data, message |-> message]

\* The rows a portfolio route returns as data.
Data(portfolioRows, positionRows, transactionRows) ==
  [portfolios |-> portfolioRows, positions |-> positionRows,
   transactions |-> transactionRows]

\* GET /:id (portfolio.findFirst by id and userId, with its positions and
\* its latest transactions)
getPortfolio(r, u, p) ==
  /\ inflight[r].pc = "idle"
  /\ IF FindPortfolio(p, u) = {}
     THEN Send(r, Throw("getPortfolio", "Portfolio not found"))
     ELSE Send(r, ApiResponse(200,
                              Data(FindPortfolio(p, u), PositionsOf(p),
                                   {row \in transactions : row.portfolioId = p}),
                              "Portfolio retrieved successfully"))
  /\ UNCHANGED <<db, profile>>

\* GET /:id/positions (position.findMany by portfolioId and the portfolio's
\* userId)
getPositions(r, u, p) ==
  /\ inflight[r].pc = "idle"
  /\ Send(r, ApiResponse(200,
                         Data({}, {row \in PositionsOf(p) : FindPortfolio(p, u) # {}}, {}),
                         "Positions retrieved successfully"))
  /\ UNCHANGED <<db, profile>>

\* GET /:id/transactions (transaction.findMany by portfolioId and the
\* portfolio's userId)
getTransactions(r, u, p) ==
  /\ inflight[r].pc = "idle"
  /\ Send(r, ApiResponse(200,
                         Data({}, {},
                              {row \in transactions :
                                 row.portfolioId = p /\ FindPortfolio(p, u) # {}}),
                         "Transactions retrieved successfully"))
  /\ UNCHANGED <<db, profile>>

(* ------------------------------------------------------------------ *)
(* JSON web tokens                                                    *)
(* ------------------------------------------------------------------ *)

\* jwt.sign(payload, secret, {expiresIn}): the signature binds the payload
\* to the secret.
JwtSign(payload, secret, expiresIn) ==
  [payload |-> payload, secret |-> secret, expiresIn |-> expiresIn]

generateToken(userId) == JwtSign([userId |-> userId], "JWT_SECRET", "7d")

generateRefreshToken(userId) ==
  JwtSign([userId |-> userId], "JWT_REFRESH_SECRET", "30d")

\* What a client sends as a token: nothing, a string that is no JWT, or a
\* JWT, before or after its exp.
NoBearer == [kind |-> "none"]

Malformed == [kind |-> "malformed"]

Bearer(jwt, expired) == [kind |-> "jwt", jwt |-> jwt, expired |-> expired]

\* A token signed by somebody who does not know the service's secrets.
Forged == Bearer(JwtSign([user |-> [id |-> "u1"]], "guessed", "7d"), FALSE)

\* The tokens clients can send: the three above and every token the
\* service has handed out.
Bearers ==
  {NoBearer, Malformed, Forged} \cup {Bearer(jwt, e) : jwt \in tokens, e \in BOOLEAN}

\* jwt.verify(token, secret): the error it throws (by name), or the payload.
\* The signature is checked before exp.
JwtVerify(bearer, secret) ==
  IF bearer.kind # "jwt" THEN [name |-> "JsonWebTokenError"]
  ELSE IF bearer.jwt.secret # secret THEN [name |-> "JsonWebTokenError"]
  ELSE IF bearer.expired THEN [name |-> "TokenExpiredError"]
  ELSE [name |-> "", decoded |-> bearer.jwt.payload]

\* error instanceof jwt.JsonWebTokenError (TokenExpiredError and
\* NotBeforeError extend JsonWebTokenError).
InstanceOfJsonWebTokenError(name) ==
  name \in {"JsonWebTokenError", "TokenExpiredError", "NotBeforeError"}

\* The value of a property that an object does not have.
Undefined == [undefined |-> TRUE]

\* decoded.user
DecodedUser(decoded) == IF "user" \in DOMAIN decoded THEN decoded.user ELSE Undefined

(* ------------------------------------------------------------------ *)
(* middleware/auth.ts                                                 *)
(* ------------------------------------------------------------------ *)

\* A route of each router that starts with router.use(authenticate):
\* portfolios, users, recommendations.
ProtectedRoutes == {"getPortfolios", "getProfile", "getRecommendations"}

\* Of these, the controllers that start by reading req.user!.id.
UserRoutes == {"getPortfolios", "getProfile"}

\* A request to a protected route has arrived with its Authorization header.
receive(r, route, bearer) ==
  /\ inflight[r].pc = "idle"
  /\ Await(r, [pc |-> "idle", op |-> route, bearer |-> bearer, user |-> Undefined],
           "received")
  /\ UNCHANGED <<db, profile>>

\* authenticate whose catch block passes the request on, as optionalAuth does.
authenticate_Optional(r) ==
  /\ inflight[r].pc = "received"
  /\ LET req == inflight[r]
         verified == JwtVerify(req.bearer, "JWT_SECRET")
     IN  IF req.bearer.kind = "none" \/ verified.name # ""
         THEN Await(r, req, "next")
         ELSE Await(r, [req EXCEPT !.user = DecodedUser(verified.decoded)], "next")
  /\ UNCHANGED <<db, profile>>

\* authenticate.  Without a token it throws inside try, and the catch block
\* hands the error (no JWT error) to next: errorHandler answers 401.  When
\* jwt.verify throws, the catch block throws in its turn: the promise of the
\* async middleware is rejected.  express 5 hands a rejected promise to
\* next, so errorHandler answers; express 4 does not look at it: nothing
\* answers the request (and Node 15+ ends the process on an unhandled
\* rejection).
authenticate(r) ==
  /\ inflight[r].pc = "received"
  /\ LET req == inflight[r]
         verified == JwtVerify(req.bearer, "JWT_SECRET")
         message == IF InstanceOfJsonWebTokenError(verified.name) THEN "Invalid token."
                    ELSE "Token expired."
     IN  IF req.bearer.kind = "none"
         THEN Send(r, Respond(req.op, 401, "Access denied. No token provided."))
         ELSE IF verified.name # ""
         THEN IF express >= 5
              THEN Send(r, Respond(req.op, 401, message))
              ELSE Await(r, req, "unhandledRejection")
         ELSE Await(r, [req EXCEPT !.user = DecodedUser(verified.decoded)], "next")
  /\ UNCHANGED <<db, profile>>

\* The first statement of the portfolio and user controllers evaluates
\* req.user!.id.  On an undefined req.user it throws a TypeError, which
\* asyncHandler hands to errorHandler: 500.  Otherwise the controller goes
\* on as the route's action does for the caller req.user.id.
reqUserId(r) ==
  /\ inflight[r].pc = "next"
  /\ inflight[r].op \in UserRoutes
  /\ IF inflight[r].user = Undefined
     THEN Send(r, Throw(inflight[r].op,
                        "Cannot read properties of undefined (reading 'id')"))
     ELSE Await(r, inflight[r], "authenticated")
  /\ UNCHANGED <<db, profile>>

\* GET /api/recommendations: the controller answers with its fixtures.
getRecommendations(r) ==
  /\ inflight[r].pc = "next"
  /\ inflight[r].op = "getRecommendations"
  /\ Send(r, Respond("getRecommendations", 200, ""))
  /\ UNCHANGED <<db, profile>>

(* ------------------------------------------------------------------ *)
(* controllers/authController.ts                                      *)
(* ------------------------------------------------------------------ *)

\* res.json(...) of a response that carries tokens.
SendTokens(r, resp, issued) ==
  /\ response' = resp
  /\ inflight' = [inflight EXCEPT ![r] = Idle]
  /\ tokens' = tokens \cup issued
  /\ UNCHANGED <<express, frontend>>

\* The next cuid of a user row.
FreshUserId ==
  LET taken == {row.id : row \in users} \cup {IF "id" \in DOMAIN inflight[q] THEN inflight[q].id ELSE "" : q \in Procs}
      i == CHOOSE k \in 1..Len(UserIdOrder) :
             /\ UserIdOrder[k] \notin taken
             /\ \A j \in 1..(k - 1) : UserIdOrder[j] \in taken
  IN  UserIdOrder[i]

\* POST /api/auth/register up to its second await: user.findUnique by email.
registerFind(r, email, password) ==
  /\ inflight[r].pc = "idle"
  /\ IF FindUserByEmail(email) # {}
     THEN Send(r, Respond("register", 400, "User already exists with this email"))
     ELSE Await(r, [pc |-> "idle", op |-> "register", email |-> email,
                    password |-> password, id |-> ""], "checked")
  /\ UNCHANGED <<db, profile>>

\* register: bcrypt.hash and user.create (email is unique: P2002, which
\* errorHandler answers with 400).
registerCreateUser(r) ==
  /\ inflight[r].pc = "checked"
  /\ LET req == inflight[r]
     IN  IF FindUserByEmail(req.email) # {}
         THEN /\ Send(r, Respond("register", 400, "Duplicate field value entered"))
              /\ UNCHANGED users
         ELSE /\ users' = users \cup {UserRow(FreshUserId, req.email, req.password)}
              /\ Await(r, [req EXCEPT !.id = FreshUserId], "userCreated")
  /\ UNCHANGED <<portfolios, usedIds, positions, transactions, nextTxId, profile>>

\* The default portfolio created without isDefault.
DefaultPortfolio_NotDefault(id, userId) ==
  [id |-> id, userId |-> userId, name |-> "My Portfolio", isDefault |-> FALSE]

\* data of register's portfolio.create
DefaultPortfolio(id, userId) ==
  [id |-> id, userId |-> userId, name |-> "My Portfolio", isDefault |-> TRUE]

\* register: portfolio.create
registerCreatePortfolio(r) ==
  /\ inflight[r].pc = "userCreated"
  /\ PortfolioIds \ usedIds # {}
  /\ LET req == inflight[r]
     IN  IF UserExists(req.id)
         THEN /\ portfolios' = portfolios \cup {DefaultPortfolio(FreshId, req.id)}
              /\ usedIds' = usedIds \cup {FreshId}
              /\ Await(r, req, "portfolioCreated")
         ELSE /\ Send(r, Throw("register", "Foreign key constraint failed"))
              /\ UNCHANGED <<portfolios, usedIds>>
  /\ UNCHANGED <<users, positions, transactions, nextTxId, profile>>

\* register: watchlist.create
registerCreateWatchlist(r) ==
  /\ inflight[r].pc = "portfolioCreated"
  /\ LET req == inflight[r]
     IN  IF UserExists(req.id)
         THEN /\ watchlists' = watchlists \cup {req.id}
              /\ Await(r, req, "watchlistCreated")
         ELSE /\ Send(r, Throw("register", "Foreign key constraint failed"))
              /\ UNCHANGED watchlists
  /\ UNCHANGED <<db, userSettings>>

\* register: userSettings.create and the response with the tokens that
\* were generated after user.create.
registerCreateSettings(r) ==
  /\ inflight[r].pc = "watchlistCreated"
  /\ LET req == inflight[r]
     IN  IF UserExists(req.id)
         THEN /\ userSettings' = userSettings \cup {req.id}
              /\ SendTokens(r, Respond("register", 201, ""),
                            {generateToken(req.id), generateRefreshToken(req.id)})
         ELSE /\ Send(r, Throw("register", "Foreign key constraint failed"))
              /\ UNCHANGED userSettings
  /\ UNCHANGED <<db, watchlists>>

\* register: the create that slot r awaits is rejected (the database cannot
\* be reached, the query times out).  No try surrounds the creates and no
\* $transaction holds them together: asyncHandler hands the error to
\* errorHandler, and the rows created before stay.
registerCreateRejected(r) ==
  /\ inflight[r].pc \in {"userCreated", "portfolioCreated", "watchlistCreated"}
  /\ Send(r, Throw("register", "Can't reach database server"))
  /\ UNCHANGED <<db, profile>>

\* POST /api/auth/login (user.findUnique, bcrypt.compare, the response)
login(r, email, password) ==
  /\ inflight[r].pc = "idle"
  /\ LET found == FindUserByEmail(email)
     IN  IF found = {} \/ \E user \in found : ~user.isActive
         THEN Send(r, Respond("login", 401, "Invalid credentials"))
         ELSE IF \E user \in found : ~BcryptCompare(password, user.password)
         THEN Send(r, Respond("login", 401, "Invalid credentials"))
         ELSE SendTokens(r, Respond("login", 200, ""),
                         UNION {{generateToken(user.id), generateRefreshToken(user.id)} :
                                  user \in found})
  /\ UNCHANGED <<db, profile>>

\* POST /api/auth/refresh-token (jwt.verify, user.findUnique, the response);
\* every error inside try ends as 401 'Invalid refresh token'.
refreshToken(r, bearer) ==
  /\ inflight[r].pc = "idle"
  /\ LET verified == JwtVerify(bearer, "JWT_REFRESH_SECRET")
     IN  IF bearer.kind = "none"
         THEN Send(r, Respond("refreshToken", 400, "Refresh token is required"))
         ELSE IF verified.name # ""
         THEN Send(r, Respond("refreshToken", 401, "Invalid refresh token"))
         ELSE IF \A user \in FindUserById(verified.decoded.userId) : ~user.isActive
         THEN Send(r, Respond("refreshToken", 401, "Invalid refresh token"))
         ELSE SendTokens(r, Respond("refreshToken", 200, ""),
                         {generateToken(verified.decoded.userId),
                          generateRefreshToken(verified.decoded.userId)})
  /\ UNCHANGED <<db, profile>>

\* forgotPassword's jwt.sign({ userId }, JWT_SECRET, { expiresIn: '1h' })
ResetToken(userId) == JwtSign([userId |-> userId], "JWT_SECRET", "1h")

\* What forgotPassword answers for an email.
forgotPasswordResponse(email) ==
  LET found == FindUserByEmail(email)
  IN  IF found = {}
      THEN ApiResponse(200, Null,
                       "If the email exists, a password reset link has been sent")
      ELSE ApiResponse(200, [resetToken |-> ResetToken((CHOOSE user \in found : TRUE).id)],
                       "Password reset token generated")

\* POST /api/auth/forgot-password (user.findUnique, jwt.sign, the response)
forgotPassword(r, email) ==
  /\ inflight[r].pc = "idle"
  /\ SendTokens(r, forgotPasswordResponse(email),
                {ResetToken(user.id) : user \in FindUserByEmail(email)})
  /\ UNCHANGED <<db, profile>>

\* resetPassword's jwt.verify(token, process.env.JWT_SECRET!)
VerifyResetToken(bearer) == JwtVerify(bearer, "JWT_SECRET")

\* POST /api/auth/reset-password up to its second await: jwt.verify and
\* user.findUnique by decoded.userId.  Whatever is thrown inside try ends as
\* 400 'Invalid or expired reset token'.
resetPasswordFind(r, bearer, password) ==
  /\ inflight[r].pc = "idle"
  /\ LET verified == VerifyResetToken(bearer)
     IN  IF verified.name # ""
         THEN Send(r, Respond("resetPassword", 400, "Invalid or expired reset token"))
         ELSE IF FindUserById(verified.decoded.userId) = {}
         THEN Send(r, Respond("resetPassword", 400, "Invalid or expired reset token"))
         ELSE Await(r, [pc |-> "idle", op |-> "resetPassword", bearer |-> bearer,
                        password |-> password, id |-> verified.decoded.userId],
                    "resetFound")
  /\ UNCHANGED <<db, profile>>

\* resetPassword: bcrypt.hash, user.update (P2025 when the row is gone,
\* which the catch block answers as any other error), the response.
resetPasswordUpdate(r) ==
  /\ inflight[r].pc = "resetFound"
  /\ LET req == inflight[r]
         found == FindUserById(req.id)
     IN  IF found = {}
         THEN /\ Send(r, Respond("resetPassword", 400, "Invalid or expired reset token"))
              /\ UNCHANGED users
         ELSE /\ users' = (users \ found) \cup
                            {[user EXCEPT !.password = BcryptHash(req.password)] :
                               user \in found}
              /\ Send(r, ApiResponse(200, Null, "Password reset successfully"))
  /\ UNCHANGED <<portfolios, usedIds, positions, transactions, nextTxId, profile>>

(* ------------------------------------------------------------------ *)
(* components/risk-assessment: the RiskAssessment questionnaire       *)
(* ------------------------------------------------------------------ *)

\* The backend's state, which no step of the web client's components writes.
backend == <<db, inflight, response, auth>>

assessment == <<currentQuestion, answers, isCompleted, riskProfile>>

analytics == <<series, benchmark, metrics>>

\* useState({}): no answer is a function on the empty set of question ids.
NoAnswers == [id \in {} |-> 0]

\* A question of riskQuestions; the scale question has no options, which
\* is the empty sequence here.
RiskQuestion(id, type, options, weight) ==
  [id |-> id, type |-> type, options |-> options, weight |-> weight]

riskQuestions ==
  << RiskQuestion("1", "multiple_choice",
                  <<"Capital preservation", "Income generation", "Growth",
                    "Aggressive growth">>, 3),
     RiskQuestion("2", "multiple_choice",
                  <<"Less than 1 year", "1-3 years", "3-5 years", "5-10 years",
                    "More than 10 years">>, 4),
     RiskQuestion("3", "multiple_choice",
                  <<"Sell all investments immediately",
                    "Sell some investments to reduce risk",
                    "Hold and wait for recovery",
                    "Buy more while prices are low">>, 5),
     RiskQuestion("4", "multiple_choice",
                  <<"Less than 5%", "5-10%", "10-20%", "20-30%", "More than 30%">>, 2),
     RiskQuestion("5", "scale", <<>>, 2),
     RiskQuestion("6", "multiple_choice",
                  <<"Not important at all", "Somewhat important", "Very important",
                    "Extremely important">>, 3) >>

\* The buttons of the scale question: [1, 2, ..., 10].
ScaleValues == 1..10

\* What the buttons of a question pass to handleAnswer.
Choices(question) ==
  IF question.type = "scale" THEN ScaleValues
  ELSE {question.options[i] : i \in 1..Len(question.options)}

\* Array.prototype.indexOf: the 0-based index of the first match, or -1.
RECURSIVE IndexFrom(_, _, _)
IndexFrom(options, answer, i) ==
  IF i > Len(options) THEN -1
  ELSE IF options[i] = answer THEN i - 1
  ELSE IndexFrom(options, answer, i + 1)

indexOf(options, answer) == IndexFrom(options, answer, 1)

\* question.options?.length || 10
OptionsLengthOr10(question) ==
  IF Len(question.options) = 0 THEN 10 ELSE Len(question.options)

\* answers[question.id] !== undefined
Answered(question) == question.id \in DOMAIN answers

\* The score a question adds: an unanswered question adds nothing.
Score_ZeroBased(question) ==
  IF ~Answered(question) THEN 0
  ELSE IF question.type = "multiple_choice"
  THEN indexOf(question.options, answers[question.id]) * question.weight
  ELSE IF question.type = "scale" THEN answers[question.id] * question.weight
  ELSE 0

Score(question) ==
  IF ~Answered(question) THEN 0
  ELSE IF question.type = "multiple_choice"
  THEN (indexOf(question.options, answers[question.id]) + 1) * question.weight
  ELSE IF question.type = "scale" THEN answers[question.id] * question.weight
  ELSE 0

\* What a question adds to maxScore.
MaxOf(question) ==
  IF Answered(question) THEN OptionsLengthOr10(question) * question.weight ELSE 0

\* totalScore and maxScore after the forEach over the first n questions.
RECURSIVE totalScore(_)
totalScore(n) ==
  IF n = 0 THEN 0 ELSE totalScore(n - 1) + Score(riskQuestions[n])

RECURSIVE maxScore(_)
maxScore(n) ==
  IF n = 0 THEN 0 ELSE maxScore(n - 1) + MaxOf(riskQuestions[n])

\* riskScore = (totalScore / maxScore) * 100 against the thresholds 30 and
\* 70, in exact arithmetic.  Next is disabled on an unanswered question, so
\* maxScore is positive when the profile is calculated; 0/0 is NaN, which
\* is below no threshold.
calculateRiskProfile ==
  LET total == totalScore(Len(riskQuestions))
      max == maxScore(Len(riskQuestions))
  IN  riskProfile' = IF max > 0 /\ total * 100 < 30 * max THEN "conservative"
                     ELSE IF max > 0 /\ total * 100 < 70 * max THEN "moderate"
                     ELSE "aggressive"

currentQuestionData == riskQuestions[currentQuestion + 1]

\* A click on an option of the question shown.
handleAnswer(answer) ==
  /\ ~isCompleted
  /\ answers' = [id \in DOMAIN answers \cup {currentQuestionData.id} |->
                   IF id = currentQuestionData.id THEN answer ELSE answers[id]]
  /\ UNCHANGED <<currentQuestion, isCompleted, riskProfile, backend, analytics>>

\* Next as it would be were the button never disabled.
handleNext_NeverDisabled ==
  /\ ~isCompleted
  /\ IF currentQuestion < Len(riskQuestions) - 1
     THEN /\ currentQuestion' = currentQuestion + 1
          /\ UNCHANGED <<isCompleted, riskProfile>>
     ELSE /\ calculateRiskProfile
          /\ isCompleted' = TRUE
          /\ UNCHANGED currentQuestion
  /\ UNCHANGED <<answers, backend, analytics>>

\* A click on Next, which is disabled while the question shown has no answer.
handleNext ==
  /\ ~isCompleted
  /\ Answered(currentQuestionData)
  /\ IF currentQuestion < Len(riskQuestions) - 1
     THEN /\ currentQuestion' = currentQuestion + 1
          /\ UNCHANGED <<isCompleted, riskProfile>>
     ELSE /\ calculateRiskProfile
          /\ isCompleted' = TRUE
          /\ UNCHANGED currentQuestion
  /\ UNCHANGED <<answers, backend, analytics>>

\* A click on Previous, which is disabled on the first question.
handlePrevious ==
  /\ ~isCompleted
  /\ currentQuestion > 0
  /\ currentQuestion' = currentQuestion - 1
  /\ UNCHANGED <<answers, isCompleted, riskProfile, backend, analytics>>

\* A click on Retake Assessment, which the results show.
resetAssessment ==
  /\ isCompleted
  /\ currentQuestion' = 0
  /\ answers' = NoAnswers
  /\ isCompleted' = FALSE
  /\ riskProfile' = "null"
  /\ UNCHANGED <<backend, analytics>>

(* ------------------------------------------------------------------ *)
(* Performance analytics: analyze(series, riskFreeRate) -> Metrics    *)
(* ------------------------------------------------------------------ *)

\* A series is the sequence of its snapshots' values, ascending by date;
\* a valuation is a positive number.
Valuations == 1..MaxValue

SeriesOfLength(n) == [1..n -> Valuations]

\* A rational number is <<numerator, denominator>> with a positive
\* denominator, so that no metric is rounded.
RatLess(a, b) == a[1] * b[2] < b[1] * a[2]

RatMin(a, b) == IF RatLess(b, a) THEN b ELSE a

\* runningMax(value_0..t)
RECURSIVE runningMax(_, _)
runningMax(s, t) ==
  IF t = 1 THEN s[1]
  ELSE LET before == runningMax(s, t - 1)
       IN  IF s[t] > before THEN s[t] ELSE before

\* value_t / runningMax(value_0..t) - 1
Drawdown(s, t) == <<s[t] - runningMax(s, t), runningMax(s, t)>>

\* min over the first t snapshots of the drawdown.
RECURSIVE MinDrawdown(_, _)
MinDrawdown(s, t) ==
  IF t = 1 THEN Drawdown(s, 1)
  ELSE RatMin(MinDrawdown(s, t - 1), Drawdown(s, t))

\* The drawdown reported as the magnitude of the decline.
maxDrawdown_Magnitude(s) ==
  <<-(MinDrawdown(s, Len(s))[1]), MinDrawdown(s, Len(s))[2]>>

maxDrawdown(s) == MinDrawdown(s, Len(s))

\* The period returns r_t = value_t / value_{t-1} - 1 of a series of n
\* snapshots are n-1 rationals; they are kept over their common
\* denominator, the product of the first n-1 values.
RECURSIVE CommonDenominator(_, _)
CommonDenominator(s, t) ==
  IF t = 0 THEN 1 ELSE s[t] * CommonDenominator(s, t - 1)

ReturnNumerators(s) ==
  [t \in 1..(Len(s) - 1) |->
     ((s[t + 1] - s[t]) * CommonDenominator(s, Len(s) - 1)) \div s[t]]

\* Sum over t of (x_t - mean(x)) * (y_t - mean(y)), times k^2 for k
\* observations.
Codeviation(x, y) ==
  LET k == Len(x)
      T == 1..k
      sx == SumOver(T, [t \in T |-> x[t]])
      sy == SumOver(T, [t \in T |-> y[t]])
  IN  SumOver(T, [t \in T |-> (k * x[t] - sx) * (k * y[t] - sy)])

\* var(benchmarkReturns) is 0 when no return deviates from their mean; one
\* return alone has no variance either.
ZeroVariance(b) ==
  LET r == ReturnNumerators(b) IN Codeviation(r, r) = 0

\* beta = cov(portfolioReturns, benchmarkReturns) / var(benchmarkReturns).
\* k^2 and the degrees of freedom cancel; the common denominators stay.
beta(s, b) ==
  LET rs == ReturnNumerators(s)
      rb == ReturnNumerators(b)
  IN  << Codeviation(rs, rb) * CommonDenominator(b, Len(b) - 1),
         Codeviation(rb, rb) * CommonDenominator(s, Len(s) - 1) >>

InsufficientDataError == [kind |-> "InsufficientDataError"]

Metrics(s, b) == [kind |-> "Metrics", maxDrawdown |-> maxDrawdown(s), beta |-> beta(s, b)]

\* analyze without the guard on the benchmark's variance.
analyze_DivideByVariance ==
  /\ metrics' = IF Len(series) < 2 THEN InsufficientDataError
                ELSE Metrics(series, benchmark)
  /\ UNCHANGED <<series, benchmark, backend, assessment>>

\* The statistics are recomputed from the full series on each call.
analyze ==
  /\ metrics' = IF Len(series) < 2 THEN InsufficientDataError
                ELSE IF ZeroVariance(benchmark) THEN InsufficientDataError
                ELSE Metrics(series, benchmark)
  /\ UNCHANGED <<series, benchmark, backend, assessment>>

\* The metrics the dashboard shows, in percent: maxDrawdown -8.2, beta 1.15.
mockMetrics == [maxDrawdown |-> <<-82, 10>>, beta |-> <<115, 100>>]

(* ------------------------------------------------------------------ *)
(* Specifications                                                     *)
(* ------------------------------------------------------------------ *)

\* The questionnaire as RiskAssessment mounts: useState(0), ({}), (false),
\* (null).
InitAssessment ==
  /\ currentQuestion = 0
  /\ answers = NoAnswers
  /\ isCompleted = FALSE
  /\ riskProfile = "null"

\* No series has been handed to the analytics.
NoMetrics == [kind |-> "null"]

InitAnalytics ==
  /\ series = <<>>
  /\ benchmark = <<>>
  /\ metrics = NoMetrics

\* Nobody has registered through the API or holds a token.
InitAuth ==
  /\ watchlists = {}
  /\ userSettings = {}
  /\ tokens = {}
  /\ express = 4

\* The two users of the portfolio API.
SeedUsers == {UserRow("u1", "ann@x.io", "pw1"), UserRow("u2", "bob@x.io", "pw2")}

\* The service has started on a database with two users and no portfolio;
\* no request is in flight.
Init ==
  /\ InitAuth
  /\ InitAssessment
  /\ InitAnalytics
  /\ users = SeedUsers
  /\ portfolios = {}
  /\ usedIds = {}
  /\ positions = {}
  /\ transactions = {}
  /\ nextTxId = 1
  /\ inflight = [r \in Procs |-> Idle]
  /\ response = NoResponse

\* Rows the requests in flight may still create.
Pending(op) == {q \in Procs : inflight[q].pc = "verified" /\ inflight[q].op = op}

TransactionRows == (nextTxId - 1) + Cardinality(Pending("addTransaction"))

PositionRows == Cardinality(positions) + Cardinality(Pending("addPosition"))

\* The position of (p, sym) stays within MaxShares when body is added to it.
SharesWithin(p, sym, body) ==
  \A row \in FindPosition(p, sym) :
    /\ row.shares + body.shares <= MaxShares
    /\ row.shares + body.shares >= 0 - MaxShares

\* The bodies sent under Spec.
FewTxBodies == {TxBody("BUY", 2, 2, <<>>), TxBody("SELL", 1, 2, <<1>>),
                TxBody("HOLD", 1, 2, <<0>>)}

FewPosBodies == {PosBody(1, 2), PosBody(0, 2)}

PositionOps(r, room, syms, bodies) ==
  \/ \E u \in Users, p \in PortfolioIds, sym \in syms, body \in bodies :
       /\ room
       /\ SharesWithin(p, sym, body)
       /\ addPositionVerify(r, u, p, sym, body)
  \/ addPositionUpsert(r)
  \/ \E u \in Users, p \in PortfolioIds, sym \in syms, body \in bodies :
       updatePositionUpdate(r, u, p, sym, body)
  \/ updatePositionRespond(r)
  \/ \E u \in Users, p \in PortfolioIds, sym \in syms : removePosition(r, u, p, sym)

TransactionOps(r, room, syms, bodies) ==
  \/ \E u \in Users, p \in PortfolioIds, sym \in syms, body \in bodies :
       /\ room
       /\ addTransactionVerify(r, u, p, sym, body)
  \/ addTransactionCreate(r)

\* The transaction ledger of one portfolio, in depth.
NextLedger ==
  \E r \in Procs :
    \/ \E u \in Users, name \in {"Growth"} : usedIds = {} /\ createPortfolio(r, u, name)
    \/ \E u \in Users, p \in PortfolioIds : deletePortfolio(r, u, p)
    \/ TransactionOps(r, TransactionRows < MaxTx, Symbols, TxBodies)

SpecLedger == Init /\ [][NextLedger]_vars

\* The positions of one portfolio, in depth.
NextPositions ==
  \E r \in Procs :
    \/ \E u \in Users, name \in {"Growth"} : usedIds = {} /\ createPortfolio(r, u, name)
    \/ \E u \in Users, p \in PortfolioIds : deletePortfolio(r, u, p)
    \/ PositionOps(r, PositionRows < MaxPositions, Symbols, PosBodies)

SpecPositions == Init /\ [][NextPositions]_vars

\* Every route, on a small database.
Next ==
  \E r \in Procs :
    \/ \E u \in Users, name \in Names : createPortfolio(r, u, name)
    \/ \E u \in Users, p \in PortfolioIds, name \in Names : updatePortfolioUpdate(r, u, p, name)
    \/ updatePortfolioRespond(r)
    \/ \E u \in Users, p \in PortfolioIds : deletePortfolio(r, u, p)
    \/ PositionOps(r, PositionRows + TransactionRows < MaxRows, {"AAPL"}, FewPosBodies)
    \/ TransactionOps(r, PositionRows + TransactionRows < MaxRows, {"AAPL"}, FewTxBodies)
    \/ \E u \in Users : deleteAccount(r, u)

Spec == Init /\ [][Next]_vars

\* The bodies sent under SpecOwnership.
OnePosBody == {PosBody(1, 2)}

OneTxBody == {TxBody("BUY", 2, 2, <<>>)}

\* Two users who read and write their own and each other's portfolios.
NextOwnership ==
  \E r \in Procs :
    \/ \E u \in Users, name \in Names : createPortfolio(r, u, name)
    \/ \E u \in Users, p \in PortfolioIds : getPortfolio(r, u, p)
    \/ \E u \in Users, p \in PortfolioIds, name \in Names : updatePortfolioUpdate(r, u, p, name)
    \/ updatePortfolioRespond(r)
    \/ \E u \in Users, p \in PortfolioIds : deletePortfolio(r, u, p)
    \/ \E u \in Users, p \in PortfolioIds : getPositions(r, u, p)
    \/ PositionOps(r, PositionRows + TransactionRows < MaxRows, {"AAPL"}, OnePosBody)
    \/ \E u \in Users, p \in PortfolioIds : getTransactions(r, u, p)
    \/ TransactionOps(r, PositionRows + TransactionRows < MaxRows, {"AAPL"}, OneTxBody)

SpecOwnership == Init /\ [][NextOwnership]_vars

\* A portfolio id is left for every register that is under way.
PortfolioIdLeft ==
  Cardinality(usedIds)
    + Cardinality({q \in Procs : inflight[q].pc \in {"checked", "userCreated"}})
    < Len(IdOrder)

\* Signing up next to the users of the portfolio API: a third person
\* registers while ann and bob create and delete portfolios.
NextSignup ==
  \E r \in Procs :
    \/ \E password \in Passwords : PortfolioIdLeft /\ registerFind(r, "cat@x.io", password)
    \/ registerCreateUser(r)
    \/ registerCreatePortfolio(r)
    \/ registerCreateWatchlist(r)
    \/ registerCreateSettings(r)
    \/ \E u \in Users, name \in Names : PortfolioIdLeft /\ createPortfolio(r, u, name)
    \/ \E u \in Users, p \in PortfolioIds : deletePortfolio(r, u, p)

SpecSignup == Init /\ [][NextSignup]_vars

\* The versions of express the service may be built with (package.json
\* fixes it; the README names Express.js only).
ExpressVersions == {4, 5}

\* The service has started on an empty database.
InitAuthRoutes ==
  /\ InitAssessment
  /\ InitAnalytics
  /\ users = {}
  /\ portfolios = {}
  /\ usedIds = {}
  /\ positions = {}
  /\ transactions = {}
  /\ nextTxId = 1
  /\ inflight = [r \in Procs |-> Idle]
  /\ response = NoResponse
  /\ watchlists = {}
  /\ userSettings = {}
  /\ tokens = {}
  /\ express \in ExpressVersions

\* What the service does for the request of slot r.
Handler(r) ==
  \/ authenticate(r)
  \/ reqUserId(r)
  \/ getRecommendations(r)
  \/ registerCreateUser(r)
  \/ registerCreatePortfolio(r)
  \/ registerCreateWatchlist(r)
  \/ registerCreateSettings(r)

\* The authentication routes and the middleware in front of the protected
\* routers.
NextAuth ==
  \E r \in Procs :
    \/ \E email \in Emails, password \in Passwords : registerFind(r, email, password)
    \/ \E email \in Emails, password \in Passwords : login(r, email, password)
    \/ \E bearer \in Bearers : refreshToken(r, bearer)
    \/ \E route \in ProtectedRoutes, bearer \in Bearers : receive(r, route, bearer)
    \/ Handler(r)

SpecAuth == InitAuthRoutes /\ [][NextAuth]_vars

\* The service some time after ann has registered: her rows exist and her
\* client holds the tokens of the response.
InitGate ==
  /\ InitAssessment
  /\ InitAnalytics
  /\ users = {UserRow("u1", "ann@x.io", "pw1")}
  /\ portfolios = {DefaultPortfolio("p1", "u1")}
  /\ usedIds = {"p1"}
  /\ positions = {}
  /\ transactions = {}
  /\ nextTxId = 1
  /\ inflight = [r \in Procs |-> Idle]
  /\ response = NoResponse
  /\ watchlists = {"u1"}
  /\ userSettings = {"u1"}
  /\ tokens = {generateToken("u1"), generateRefreshToken("u1")}
  /\ express \in ExpressVersions

\* What the middleware and the controllers behind it do for slot r.
Gate(r) ==
  \/ authenticate(r)
  \/ reqUserId(r)
  \/ getRecommendations(r)

\* Requests to the protected routes only.
NextGate ==
  \E r \in Procs :
    \/ \E route \in ProtectedRoutes, bearer \in Bearers : receive(r, route, bearer)
    \/ Gate(r)

SpecGate == InitGate /\ [][NextGate]_vars

\* Node runs every handler on: a pending step of a request is taken.
FairSpecGate == SpecGate /\ \A r \in Procs : WF_vars(Gate(r))

\* The visitor of the risk assessment page: answers, goes back and forth,
\* completes and retakes the questionnaire.
NextQuiz ==
  \/ \E answer \in Choices(currentQuestionData) : handleAnswer(answer)
  \/ handleNext
  \/ handlePrevious
  \/ resetAssessment

SpecQuiz == Init /\ [][NextQuiz]_vars

\* The analytics are handed any series of at most MaxSnapshots valuations
\* and a benchmark over the same dates.
InitMetrics ==
  /\ InitAuth
  /\ InitAssessment
  /\ users = SeedUsers
  /\ portfolios = {}
  /\ usedIds = {}
  /\ positions = {}
  /\ transactions = {}
  /\ nextTxId = 1
  /\ inflight = [r \in Procs |-> Idle]
  /\ response = NoResponse
  /\ \E n \in 0..MaxSnapshots :
        /\ series \in SeriesOfLength(n)
        /\ benchmark \in SeriesOfLength(n)
  /\ metrics = NoMetrics

NextMetrics == analyze

SpecMetrics == InitMetrics /\ [][NextMetrics]_vars

\* An email nobody has registered.
UnknownEmail == "cat@x.io"

\* Clients that sign in, ask for a password reset and reset a password.
NextReset ==
  \E r \in Procs :
    \/ \E email \in Emails, password \in Passwords : login(r, email, password)
    \/ \E email \in Emails \cup {UnknownEmail} : forgotPassword(r, email)
    \/ \E bearer \in Bearers, password \in Passwords :
         resetPasswordFind(r, bearer, password)
    \/ resetPasswordUpdate(r)

SpecReset == Init /\ [][NextReset]_vars

\* People who register and sign in while a create of register may fail.
NextRegister ==
  \E r \in Procs :
    \/ \E email \in Emails, password \in Passwords : registerFind(r, email, password)
    \/ registerCreateUser(r)
    \/ registerCreatePortfolio(r)
    \/ registerCreateWatchlist(r)
    \/ registerCreateSettings(r)
    \/ registerCreateRejected(r)
    \/ \E email \in Emails, password \in Passwords : login(r, email, password)

SpecRegister == InitAuthRoutes /\ [][NextRegister]_vars

\* The emails of SpecEmails.
AllEmails == Emails \cup {UnknownEmail}

\* A user id is left for every register that has passed its check.
UserIdLeft ==
  Cardinality(users) + Cardinality({q \in Procs : inflight[q].pc = "checked"})
    < Len(UserIdOrder)

\* People who register while ann and bob change the email of their
\* profiles.
NextEmails ==
  \E r \in Procs :
    \/ \E email \in AllEmails :
         UserIdLeft /\ PortfolioIdLeft /\ registerFind(r, email, "pw1")
    \/ registerCreateUser(r)
    \/ registerCreatePortfolio(r)
    \/ registerCreateWatchlist(r)
    \/ registerCreateSettings(r)
    \/ \E u \in Users, email \in AllEmails : updateProfileFind(r, u, email)
    \/ updateProfileUpdate(r)

SpecEmails == Init /\ [][NextEmails]_vars

(* ------------------------------------------------------------------ *)
(* Properties                                                         *)
(* ------------------------------------------------------------------ *)

\* Slot r is about to run transaction.create for a SELL.
SellPending(r) ==
  /\ inflight[r].pc = "verified"
  /\ inflight[r].op = "addTransaction"
  /\ inflight[r].body.type = "SELL"

\* C1: a SELL for more shares of a symbol than the portfolio holds (by the
\* ledger and by its position) fails with InsufficientSharesError and leaves
\* the ledger and the positions as they were.
C1_OversoldSellRejected ==
  [][\A r \in Procs :
       (/\ SellPending(r)
        /\ inflight[r].body.shares > LedgerShares(inflight[r].p, inflight[r].sym)
        /\ inflight[r].body.shares > PositionShares(inflight[r].p, inflight[r].sym)
        /\ addTransactionCreate(r))
       => /\ response'.error = "InsufficientSharesError"
          /\ transactions' = transactions
          /\ positions' = positions]_vars

\* C2: two simultaneous SELLs of a symbol are never both accepted against a
\* share count that covers each but not both.  When slot r writes its SELL,
\* which the count r read covered, after another SELL of the symbol was
\* accepted since r read, the ledger is not oversold by it.
C2_NoDoubleSellOnStaleCount ==
  [][\A r \in Procs, p \in PortfolioIds, sym \in Symbols :
       (/\ SellPending(r)
        /\ inflight[r].p = p
        /\ inflight[r].sym = sym
        /\ inflight[r].body.shares <= inflight[r].held
        /\ LedgerShares(p, sym) >= 0
        /\ \E t \in TransactionsOf(p, sym) : t.type = "SELL" /\ t.id >= inflight[r].ver
        /\ addTransactionCreate(r))
       => LedgerShares(p, sym)' >= 0]_vars

\* C3: the total of every transaction is shares*price + fees for a BUY and
\* shares*price - fees for a SELL.
C3_TotalBySide ==
  \A t \in transactions :
    t.total = IF t.type = "BUY" THEN t.shares * t.price + t.fees
              ELSE t.shares * t.price - t.fees

\* C4: the shares reported for a position are the BUYs minus the SELLs of
\* the symbol's ledger.
C4_PositionsAreLedgerView ==
  \A p \in PortfolioIds, sym \in Symbols :
    PositionShares(p, sym) = LedgerShares(p, sym)

\* C5: buying a symbol already held (a second addPosition) adds the shares,
\* adds shares*price to the cost basis and makes averagePrice the cost basis
\* per share.
C5_SecondPurchaseAverages ==
  [][\A r \in Procs, p \in PortfolioIds, sym \in Symbols, body \in PosBodies :
       (/\ inflight[r].pc = "verified"
        /\ inflight[r].op = "addPosition"
        /\ inflight[r].p = p
        /\ inflight[r].sym = sym
        /\ inflight[r].body = body
        /\ body.shares > 0
        /\ addPositionUpsert(r))
       => \A old \in FindPosition(p, sym) :
            (old.shares > 0 /\ old.costBasis = old.shares * old.averagePrice)
            => \E new \in FindPosition(p, sym)' :
                 /\ new.shares = old.shares + body.shares
                 /\ new.costBasis = old.costBasis + body.shares * body.averagePrice
                 /\ new.averagePrice * new.shares = new.costBasis]_vars

\* C6: every position has marketValue = shares*currentPrice and
\* gain = marketValue - costBasis.
C6_MarketValueAndGain ==
  \A row \in positions :
    /\ row.marketValue = row.shares * row.currentPrice
    /\ row.gain = row.marketValue - row.costBasis

\* C7: shares and costBasis of a position are never negative, and costBasis
\* is 0 when shares is 0.
C7_NonNegativeHoldings ==
  \A row \in positions :
    /\ row.shares >= 0
    /\ row.costBasis >= 0
    /\ (row.shares = 0 => row.costBasis = 0)

\* The market value of a portfolio and the sum of its positions' weights.
TotalValue(p) == SumOver(PositionsOf(p), [row \in PositionsOf(p) |-> row.marketValue])

TotalWeight(p) == SumOver(PositionsOf(p), [row \in PositionsOf(p) |-> row.weight])

\* C8: the weights of a portfolio's positions add up to 100 (within 1) when
\* its market value is positive, and are all 0 when it is 0.
C8_WeightsSumTo100 ==
  \A p \in PortfolioIds :
    /\ TotalValue(p) > 0 => (TotalWeight(p) >= 99 /\ TotalWeight(p) <= 101)
    /\ TotalValue(p) = 0 => \A row \in PositionsOf(p) : row.weight = 0

\* A transaction body the data model excludes: non-positive shares or price,
\* negative fees, a type other than BUY and SELL.
InvalidTransaction(body) ==
  \/ body.shares <= 0
  \/ body.price <= 0
  \/ (body.fees # <<>> /\ body.fees[1] < 0)
  \/ body.type \notin {"BUY", "SELL"}

\* C9: an invalid transaction request is answered 400 before addTransaction
\* runs: nothing is written and the handler does not start.
C9_InvalidTransactionRejected ==
  [][\A r \in Procs, u \in Users, p \in PortfolioIds, sym \in Symbols, body \in TxBodies :
       (InvalidTransaction(body) /\ addTransactionVerify(r, u, p, sym, body))
       => /\ response'.status = 400
          /\ inflight' = inflight
          /\ UNCHANGED db]_vars

\* An invalid request has been rejected while the ledger holds a row.
C9_Witness == response.status = 400 /\ transactions # {}

\* C10: the ledger is append-only.  A step keeps every transaction as it is,
\* unless it deletes the transaction's portfolio; it adds at most one row,
\* under a new id; an accepted addTransaction adds exactly one.
C10_LedgerAppendOnly ==
  [][/\ \A t \in transactions :
          \/ t \in transactions'
          \/ (PortfolioExists(t.portfolioId) /\ ~PortfolioExists(t.portfolioId)')
     /\ Cardinality(transactions' \ transactions) <= 1
     /\ \A new \in transactions' \ transactions :
          \A t \in transactions : t.id # new.id
     /\ \A r \in Procs :
          (addTransactionCreate(r) /\ response'.status = 201)
          => /\ transactions \subseteq transactions'
             /\ Cardinality(transactions' \ transactions) = 1]_vars

\* A second transaction has been added to a ledger that held one.
C10_Witness ==
  \E t1 \in transactions, t2 \in transactions :
    t1.id < t2.id /\ t1.portfolioId = t2.portfolioId

\* C12: deleting a portfolio cascades.  After deletePortfolio has succeeded
\* for p no position and no transaction of p is left, and every position and
\* every transaction belongs to a portfolio that exists.
C12_DeleteCascades ==
  [][/\ \A r \in Procs, u \in Users, p \in PortfolioIds :
          (deletePortfolio(r, u, p) /\ response'.status = 200)
          => /\ \A row \in positions' : row.portfolioId # p
             /\ \A t \in transactions' : t.portfolioId # p
     /\ \A row \in positions' : \E q \in portfolios' : q.id = row.portfolioId
     /\ \A t \in transactions' : \E q \in portfolios' : q.id = t.portfolioId]_vars

\* A portfolio that had a transaction was deleted (no account was).
C12_Witness ==
  /\ users = SeedUsers
  /\ nextTxId > 1
  /\ transactions = {}
  /\ response = Respond("deletePortfolio", 200, "")

\* C13: positions are unique by (portfolioId, symbol) under every
\* interleaving of the position routes, and adding a symbol already held
\* updates the one position (its shares grow by the shares added).
C13_PositionsUniqueBySymbol ==
  [][/\ \A row1 \in positions', row2 \in positions' :
          (row1.portfolioId = row2.portfolioId /\ row1.symbol = row2.symbol)
          => row1 = row2
     /\ \A r \in Procs, p \in PortfolioIds, sym \in Symbols, body \in PosBodies :
          (/\ inflight[r].pc = "verified"
           /\ inflight[r].op = "addPosition"
           /\ inflight[r].p = p
           /\ inflight[r].sym = sym
           /\ inflight[r].body = body
           /\ addPositionUpsert(r)
           /\ response'.status = 201)
          => \A old \in FindPosition(p, sym) :
               \A new \in FindPosition(p, sym)' : new.shares = old.shares + body.shares]_vars

\* A symbol already held was added again, and the portfolio holds both of
\* its symbols.
C13_Witness ==
  \E p \in PortfolioIds :
    /\ \E row \in FindPosition(p, "AAPL") : row.shares = 2 /\ row.averagePrice = 0
    /\ FindPosition(p, "MSFT") # {}

\* What belongs to portfolio q: its row (with the name), its positions and
\* its transactions.
RowsOf(q) ==
  <<{row \in portfolios : row.id = q}, PositionsOf(q),
    {t \in transactions : t.portfolioId = q}>>

\* The step is one of slot r's operations addressed to portfolio p (with the
\* symbol and the bodies that are sent under Spec).
AddressedTo(r, p) ==
  \/ \E u \in Users, name \in Names : updatePortfolioUpdate(r, u, p, name)
  \/ \E u \in Users : deletePortfolio(r, u, p)
  \/ \E u \in Users, body \in FewPosBodies :
       \/ addPositionVerify(r, u, p, "AAPL", body)
       \/ updatePositionUpdate(r, u, p, "AAPL", body)
  \/ \E u \in Users : removePosition(r, u, p, "AAPL")
  \/ \E u \in Users, body \in FewTxBodies : addTransactionVerify(r, u, p, "AAPL", body)
  \/ /\ inflight[r].pc # "idle"
     /\ inflight[r].p = p
     /\ \/ updatePortfolioRespond(r)
        \/ addPositionUpsert(r)
        \/ updatePositionRespond(r)
        \/ addTransactionCreate(r)

\* C14: no cross-talk between portfolios.  A step that changes the name, the
\* positions or the transactions of portfolio q is not an operation
\* addressed to another portfolio p.
C14_NoCrossTalk ==
  [][\A q \in PortfolioIds :
       RowsOf(q)' # RowsOf(q)
       => \A r \in Procs, p \in PortfolioIds \ {q} : ~AddressedTo(r, p)]_vars

\* One user owns two portfolios that hold the same symbol, and a request
\* for one of them has just been answered.
C14_Witness ==
  /\ \E p \in PortfolioIds, q \in PortfolioIds, u \in Users :
       /\ p # q
       /\ FindPortfolio(p, u) # {} /\ FindPortfolio(q, u) # {}
       /\ FindPosition(p, "AAPL") # {} /\ FindPosition(q, "AAPL") # {}
  /\ response = Respond("updatePosition", 200, "")

\* C11: when register answers 201 the new user owns exactly one portfolio,
\* which has isDefault = true; createPortfolio creates no default portfolio,
\* so a user never has more than one default portfolio.
C11_OneDefaultPortfolio ==
  [][/\ \A r \in Procs :
          (/\ inflight[r].pc = "watchlistCreated"
           /\ registerCreateSettings(r)
           /\ response'.status = 201)
          => \E row \in portfolios' :
               /\ row.isDefault
               /\ \A other \in portfolios' :
                    other.userId = inflight[r].id <=> other = row
     /\ \A r \in Procs, u \in Users, name \in Names :
          createPortfolio(r, u, name)
          => \A row \in portfolios' \ portfolios : ~row.isDefault
     /\ \A row1 \in portfolios', row2 \in portfolios' :
          (row1.userId = row2.userId /\ row1.isDefault /\ row2.isDefault)
          => row1 = row2]_vars

\* Somebody has registered, and a user of the API has created a portfolio.
C11_Witness ==
  /\ response = Respond("register", 201, "")
  /\ \E row \in portfolios : row.isDefault /\ row.userId \notin Users
  /\ \E row \in portfolios : ~row.isDefault /\ row.userId \in Users

\* The bearer is a JWT signed under JWT_SECRET whose exp has not passed.
VerifiedUnderJwtSecret(bearer) ==
  /\ bearer.kind = "jwt"
  /\ bearer.jwt.secret = "JWT_SECRET"
  /\ ~bearer.expired

\* C15: no controller of the portfolio, user and recommendation routers
\* runs unless authenticate has verified the request's bearer token under
\* JWT_SECRET and passed the request on.
C15_ControllersBehindAuthenticate ==
  [][\A r \in Procs :
       (reqUserId(r) \/ getRecommendations(r))
       => /\ inflight[r].pc = "next"
          /\ VerifiedUnderJwtSecret(inflight[r].bearer)]_vars

\* authenticate has passed a request with a token of the service on to a
\* controller, after it has turned another one down.
C15_Witness ==
  /\ response.status = 401
  /\ \E r \in Procs :
       /\ inflight[r].pc = "next"
       /\ inflight[r].op = "getRecommendations"
       /\ inflight[r].bearer.jwt \in tokens

\* C19: a token that register, login or refresh-token returned for user u
\* authenticates u: when authenticate passes a request with it on, req.user
\* is a user whose id is u.
C19_TokenAuthenticatesItsUser ==
  \A r \in Procs, row \in users :
    (/\ inflight[r].pc = "next"
     /\ generateToken(row.id) \in tokens
     /\ inflight[r].bearer = Bearer(generateToken(row.id), FALSE))
    => /\ inflight[r].user # Undefined
       /\ inflight[r].user.id = row.id

\* C20: a request to a protected route without a token, with a malformed or
\* wrongly signed token or with an expired one is eventually answered 401.
C20_BadTokenAnswered401 ==
  \A r \in Procs :
    (inflight[r].pc = "received" /\ ~VerifiedUnderJwtSecret(inflight[r].bearer))
    ~> (inflight[r].pc = "idle" /\ response.status = 401)

\* The 1-based index of the option chosen for a question, or the value
\* chosen on its scale.
ChosenValue(question) ==
  IF question.type = "scale" THEN answers[question.id]
  ELSE CHOOSE i \in 1..Len(question.options) :
         question.options[i] = answers[question.id]

QuestionNumbers == 1..Len(riskQuestions)

WeightedTotal ==
  SumOver(QuestionNumbers,
          [i \in QuestionNumbers |->
             riskQuestions[i].weight * ChosenValue(riskQuestions[i])])

WeightedMax ==
  SumOver(QuestionNumbers,
          [i \in QuestionNumbers |->
             riskQuestions[i].weight * Cardinality(Choices(riskQuestions[i]))])

\* C16: once the assessment is completed every question has an answer, and
\* with total the sum over the questions of weight * (1-based index of the
\* chosen option, or the chosen scale value) and max the sum of weight *
\* (number of options, or 10 for the scale question), the profile is
\* conservative when 100*total/max < 30, moderate when it is >= 30 and < 70,
\* and aggressive otherwise.
C16_RiskProfileWeightedSum ==
  isCompleted
  => /\ \A i \in QuestionNumbers : Answered(riskQuestions[i])
     /\ riskProfile = IF 100 * WeightedTotal < 30 * WeightedMax THEN "conservative"
                      ELSE IF 100 * WeightedTotal < 70 * WeightedMax THEN "moderate"
                      ELSE "aggressive"

\* A completed assessment whose weighted sum stays below 30% of the maximum.
C16_Witness ==
  /\ isCompleted
  /\ riskProfile = "conservative"
  /\ 100 * WeightedTotal < 30 * WeightedMax

\* The series never decreases.
NonDecreasing(s) == \A t \in 1..(Len(s) - 1) : s[t] <= s[t + 1]

\* C17: the maxDrawdown reported for a value series, and the one the
\* dashboard shows, is a number <= 0; it is exactly 0 when the series never
\* decreases.
C17_MaxDrawdownNonPositive ==
  /\ mockMetrics.maxDrawdown[1] <= 0
  /\ mockMetrics.maxDrawdown[2] > 0
  /\ metrics.kind = "Metrics"
     => /\ metrics.maxDrawdown[2] > 0
        /\ metrics.maxDrawdown[1] <= 0
        /\ NonDecreasing(series) => metrics.maxDrawdown[1] = 0

\* Metrics of a series that rises and never falls.
C17_Witness ==
  /\ metrics.kind = "Metrics"
  /\ Len(series) >= 3
  /\ NonDecreasing(series)
  /\ series[1] < series[Len(series)]
  /\ metrics.maxDrawdown[1] = 0

\* Every period return of the benchmark is the same, so that their variance
\* is 0: b_{t+1}/b_t = b_{u+1}/b_u for all periods t, u.
FlatReturns(b) ==
  \A t, u \in 1..(Len(b) - 1) : b[t + 1] * b[u] = b[u + 1] * b[t]

\* C18: once a series has been analysed, the result is InsufficientDataError
\* when the series has fewer than 2 snapshots or the benchmark's returns
\* have zero variance, and metrics carry a beta that is a finite number (its
\* denominator is not 0).
C18_InsufficientDataError ==
  /\ (metrics # NoMetrics /\ (Len(series) < 2 \/ FlatReturns(benchmark)))
     => metrics = InsufficientDataError
  /\ metrics.kind = "Metrics" => metrics.beta[2] # 0

\* The analysis of three or more snapshots against a benchmark that grows
\* at a constant rate has failed.
C18_Witness ==
  /\ metrics = InsufficientDataError
  /\ Len(series) >= 3
  /\ ~NonDecreasing(series)
  /\ FlatReturns(benchmark)
  /\ benchmark[1] < benchmark[2]

\* The profiles of riskProfiles.
RiskProfiles == {"conservative", "moderate", "aggressive"}

\* What the questionnaire's state satisfies at every moment.
QuestionnaireInvariant ==
  /\ currentQuestion \in 0..(Len(riskQuestions) - 1)
  /\ isCompleted => \A i \in QuestionNumbers : Answered(riskQuestions[i])
  /\ isCompleted => riskProfile \in RiskProfiles

\* A step keeps every answer, but for the one a click on an option of the
\* question shown replaces.
AnswersKept ==
  \A i \in QuestionNumbers :
    Answered(riskQuestions[i])
    => /\ riskQuestions[i].id \in DOMAIN answers'
       \* the two sides are compared only when the first disjunct is false
       /\ \/ (i = currentQuestion + 1
              /\ \E answer \in Choices(currentQuestionData) : handleAnswer(answer))
          \/ answers'[riskQuestions[i].id] = answers[riskQuestions[i].id]

\* C27: after any sequence of answer, Next, Previous and Retake clicks,
\* currentQuestion is within 0..5, the completed state has an answer for
\* all six questions and a riskProfile that is conservative, moderate or
\* aggressive (never null), and an answer once given is kept until Retake.
C27_QuestionnaireNavigation ==
  /\ []QuestionnaireInvariant
  /\ [][~resetAssessment => AnswersKept]_vars

\* The assessment was completed on the last question with a moderate
\* profile.
C27_Witness ==
  /\ isCompleted
  /\ currentQuestion = Len(riskQuestions) - 1
  /\ DOMAIN answers = {riskQuestions[i].id : i \in QuestionNumbers}
  /\ riskProfile = "moderate"

\* The bearer is a JWT signed under JWT_SECRET whose exp has passed.
ExpiredUnderJwtSecret(bearer) ==
  /\ bearer.kind = "jwt"
  /\ bearer.jwt.secret = "JWT_SECRET"
  /\ bearer.expired

\* The bearer is no JWT, or a JWT signed under another secret.
MalformedOrWronglySigned(bearer) ==
  \/ bearer.kind = "malformed"
  \/ bearer.kind = "jwt" /\ bearer.jwt.secret # "JWT_SECRET"

\* authenticate ends the request of slot r with a 401 and this error.
Rejected(r, error) ==
  /\ inflight'[r] = Idle
  /\ response' = Respond(inflight[r].op, 401, error)

\* C21: authenticate rejects a request whose token is expired with the
\* error 'Token expired.' (401) and one whose token is malformed or wrongly
\* signed with 'Invalid token.' (401).
C21_TokenFailuresDistinguished ==
  [][\A r \in Procs :
       (inflight[r].pc = "received" /\ authenticate(r))
       => /\ ExpiredUnderJwtSecret(inflight[r].bearer)
             => Rejected(r, "Token expired.")
          /\ MalformedOrWronglySigned(inflight[r].bearer)
             => Rejected(r, "Invalid token.")]_vars

\* The emails a client may ask a password reset for.
ForgotEmails == Emails \cup {UnknownEmail}

\* C22: forgotPassword answers a request with the response (status,
\* message and data) that it would give, in the same state, to the request
\* for any other email, whether or not that email belongs to a user.
C22_ForgotPasswordRevealsNothing ==
  [][\A r \in Procs, email \in ForgotEmails :
       forgotPassword(r, email)
       => \A other \in ForgotEmails : response' = forgotPasswordResponse(other)]_vars

\* The step changes the password of the user with this id.
PasswordChanged(id) ==
  \E before \in users, after \in users' :
    /\ before.id = id
    /\ after.id = id
    /\ after.password # before.password

\* C23: a step changes a user's password only for a resetPassword request
\* whose token is the one forgotPassword issued for that user; no token of
\* register, login or refresh-token resets a password.
C23_ResetOnlyWithResetToken ==
  [][\A id \in {row.id : row \in users} :
       PasswordChanged(id)
       => /\ ResetToken(id) \in tokens
          /\ \E r \in Procs :
               /\ inflight[r].pc = "resetFound"
               /\ resetPasswordUpdate(r)
               /\ inflight[r].bearer.jwt = ResetToken(id)]_vars

\* The step starts an operation of the portfolio controller that user u
\* invokes on portfolio p in slot r.
Invokes(r, u, p) ==
  \/ getPortfolio(r, u, p)
  \/ \E name \in Names : updatePortfolioUpdate(r, u, p, name)
  \/ deletePortfolio(r, u, p)
  \/ getPositions(r, u, p)
  \/ \E body \in OnePosBody :
       \/ addPositionVerify(r, u, p, "AAPL", body)
       \/ updatePositionUpdate(r, u, p, "AAPL", body)
  \/ removePosition(r, u, p, "AAPL")
  \/ getTransactions(r, u, p)
  \/ \E body \in OneTxBody : addTransactionVerify(r, u, p, "AAPL", body)

\* The step goes on with such an operation after an await.
Continues(r, u, p) ==
  /\ inflight[r].pc # "idle"
  /\ inflight[r].user = u
  /\ inflight[r].p = p
  /\ \/ updatePortfolioRespond(r)
     \/ addPositionUpsert(r)
     \/ updatePositionRespond(r)
     \/ addTransactionCreate(r)

\* The portfolios whose userId is not u, and their rows.
ForeignTo(u) == {row.id : row \in {x \in portfolios : x.userId # u}}

ForeignRows(u) ==
  <<{row \in portfolios : row.userId # u},
    {row \in positions : row.portfolioId \in ForeignTo(u)},
    {row \in transactions : row.portfolioId \in ForeignTo(u)}>>

\* The data of a response holds no row of a portfolio of ForeignTo(u).
NoForeignData(resp, u) ==
  ("data" \in DOMAIN resp /\ "portfolios" \in DOMAIN resp.data)
  => /\ \A row \in resp.data.portfolios : row.userId = u
     /\ \A row \in resp.data.positions \cup resp.data.transactions :
          row.portfolioId \notin ForeignTo(u)

\* A step of an operation that u invokes leaves the rows of the others'
\* portfolios as they are and answers with none of them.
OwnershipKept ==
  \A r \in Procs, u \in Users, p \in PortfolioIds :
    (Invokes(r, u, p) \/ Continues(r, u, p))
    => /\ ForeignRows(u)' = ForeignRows(u)
       \* the step answers the request when it leaves the slot idle
       /\ inflight'[r] = Idle => NoForeignData(response', u)

\* The row that updatePortfolio and updatePosition read back without a
\* userId in the query belongs to a portfolio of the caller.
ReadBackOwned ==
  \A r \in Procs :
    inflight[r].pc = "updated"
    => \A row \in portfolios : row.id = inflight[r].p => row.userId = inflight[r].user

\* An operation that u invokes on a portfolio of somebody else fails and
\* changes nothing.
ForeignFails ==
  \A r \in Procs, u \in Users, p \in PortfolioIds :
    (Invokes(r, u, p) /\ p \in ForeignTo(u))
    => /\ inflight'[r] = Idle
       /\ response'.status >= 400
       /\ UNCHANGED db

\* C24: for every portfolio controller operation invoked by user u, the
\* response never contains and the operation never modifies or deletes a
\* portfolio, position or transaction of a portfolio whose userId is not u;
\* addressing such a portfolio fails and changes nothing.
C24_OwnershipIsolation ==
  /\ []ReadBackOwned
  /\ [][OwnershipKept]_vars
  /\ [][ForeignFails]_vars

\* The user has its default portfolio, its default watchlist and its
\* settings.
FullyRegistered(user) ==
  /\ \E row \in portfolios : row.userId = user.id /\ row.isDefault
  /\ user.id \in watchlists
  /\ user.id \in userSettings

\* The step ends the register call of slot r in an error.
RegisterFails(r) ==
  /\ inflight[r].pc # "idle"
  /\ inflight[r].op = "register"
  /\ inflight'[r] = Idle
  /\ response'.status >= 400

\* C25: register is all-or-nothing.  In every reachable state each user
\* record has its default portfolio, default watchlist and settings, and a
\* register call that ends in an error leaves no user record of its own
\* behind.
C25_RegisterAllOrNothing ==
  /\ [](\A user \in users : FullyRegistered(user))
  /\ [][\A r \in Procs :
         RegisterFails(r) => \A user \in users' : user.id # inflight[r].id]_vars

\* No two user records have the same email.
EmailsUnique == \A a, b \in users : a.email = b.email => a.id = b.id

\* The step ends the request of slot r with this response and writes
\* nothing.
RefusedWith(r, resp) ==
  /\ inflight'[r] = Idle
  /\ response' = resp
  /\ UNCHANGED <<db, profile>>

\* A request for an email that is in use when the handler looks it up is
\* refused with the handler's own error.
InUseRefused ==
  \A r \in Procs, email \in AllEmails :
    /\ (FindUserByEmail(email) # {} /\ registerFind(r, email, "pw1"))
       => RefusedWith(r, Respond("register", 400, "User already exists with this email"))
    /\ \A u \in Users :
         (EmailTakenByOther(email, u) /\ updateProfileFind(r, u, email))
         => RefusedWith(r, Throw("updateProfile", "Email is already taken"))

\* A request whose email was taken by somebody else after the handler had
\* looked it up ends in an error and writes nothing.
OvertakenRefused ==
  \A r \in Procs :
    /\ (/\ inflight[r].pc = "checked"
        /\ FindUserByEmail(inflight[r].email) # {}
        /\ registerCreateUser(r))
       => (inflight'[r] = Idle /\ response'.status >= 400 /\ UNCHANGED <<db, profile>>)
    /\ (/\ inflight[r].pc = "emailChecked"
        /\ EmailTakenByOther(inflight[r].email, inflight[r].user)
        /\ updateProfileUpdate(r))
       => (inflight'[r] = Idle /\ response'.status >= 400 /\ UNCHANGED <<db, profile>>)

\* C26: under any interleaving of register and updateProfile requests no two
\* user records have the same email; a request for an email that is in use
\* ends in an error ('User already exists with this email' / 'Email is
\* already taken' when the handler finds the email in use) and changes
\* nothing.
C26_EmailsUnique ==
  /\ []EmailsUnique
  /\ [][InUseRefused]_vars
  /\ [][OvertakenRefused]_vars

\* A profile update lost the race for an email that somebody registered
\* after the update had found it free.
C26_Witness ==
  /\ response = Respond("updateProfile", 400, "Duplicate field value entered")
  /\ \E row \in users : row.email = UnknownEmail /\ row.id \notin Users
  /\ EmailsUnique

====
